---- MODULE Spec2Model ----
(***************************************************************************)
(* A model of build_exam.py: the exam builder that loads an exam, its      *)
(* school and its tasks (JSON), renders them to LaTeX fragments, writes    *)
(* the assembled document and runs the LaTeX compiler.                     *)
(*                                                                         *)
(* Python values are modelled by what the interpreter does with them:      *)
(*   - a float is an IEEE-754 binary64 value.  A non-negative double is    *)
(*     the set of the positions of its 1 bits (value = sum of 2^i), so     *)
(*     that addition rounds to 53 significant bits exactly as the          *)
(*     hardware does (round to nearest, ties to even);                     *)
(*   - text is a sequence of one-character strings and of tokens that      *)
(*     stand for a LaTeX directive;                                        *)
(*   - a path is a root flag and a sequence of segments.                   *)
(***************************************************************************)
EXTENDS Integers, Sequences, FiniteSets, TLC

VARIABLES pc, env, exam, school, task, idx, loaded, total_points,
          tex_parts, task_for_render, outcome, tex_file, compiler_runs,
          call, ret

vars == <<pc, env, exam, school, task, idx, loaded, total_points,
          tex_parts, task_for_render, outcome, tex_file, compiler_runs,
          call, ret>>

\* The value of an absent key / Python's None.
None == [t |-> "none"]

----------------------------------------------------------------------------
(* Python numbers.                                                         *)

\* Significant bits of a Python float (binary64).
MANT_DIG == 53

SetMax(S) == CHOOSE x \in S : \A y \in S : y <= x
SetMin(S) == CHOOSE x \in S : \A y \in S : x <= y

RECURSIVE Pow2(_)
Pow2(n) == IF n = 0 THEN 1 ELSE 2 * Pow2(n - 1)

\* The bits of a natural number (an int converted by float(), exact for
\* the small values of the model).
RECURSIVE BitsFrom(_, _)
BitsFrom(n, i) ==
    IF n = 0 THEN {}
    ELSE (IF n % 2 = 1 THEN {i} ELSE {}) \cup BitsFrom(n \div 2, i + 1)

BitsOfNat(n) == BitsFrom(n, 0)

\* The natural number of the bits at positions >= 0 (the integral part).
RECURSIVE NatOfBits(_)
NatOfBits(S) ==
    IF S = {} THEN 0
    ELSE LET h == SetMax(S) IN Pow2(h) + NatOfBits(S \ {h})

\* Exact binary addition of two bit sets: ripple carry from position i to hi.
RECURSIVE AddFrom(_, _, _, _, _)
AddFrom(A, B, i, c, hi) ==
    IF i > hi THEN (IF c = 1 THEN {i} ELSE {})
    ELSE LET s == (IF i \in A THEN 1 ELSE 0) + (IF i \in B THEN 1 ELSE 0) + c
         IN  (IF s % 2 = 1 THEN {i} ELSE {}) \cup AddFrom(A, B, i + 1, s \div 2, hi)

ExactAdd(A, B) ==
    IF A = {} THEN B
    ELSE IF B = {} THEN A
    ELSE AddFrom(A, B, SetMin(A \cup B), 0, SetMax(A \cup B))

\* Round an exact value to MANT_DIG significant bits, to nearest, ties to even.
RoundToDouble(S) ==
    IF S = {} THEN {}
    ELSE LET cut   == SetMax(S) - (MANT_DIG - 1)
             kept  == {i \in S : i >= cut}
             half  == (cut - 1) \in S
             below == \E i \in S : i < cut - 1
             odd   == cut \in S
         IN  IF half /\ (below \/ odd) THEN ExactAdd(kept, {cut}) ELSE kept

\* a + b on floats.
FloatAdd(A, B) == RoundToDouble(ExactAdd(A, B))

\* The binary expansion of r/den (r < den) from position pos down to
\* position low; a nonzero remainder leaves a sticky bit below low.
RECURSIVE FracBits(_, _, _, _)
FracBits(r, den, pos, low) ==
    IF r = 0 THEN {}
    ELSE IF pos < low THEN {pos}
    ELSE LET r2 == 2 * r
         IN  (IF r2 >= den THEN {pos} ELSE {}) \cup
             FracBits(r2 % den, den, pos - 1, low)

\* The double nearest to num/den: what json.loads makes of a decimal literal.
DecimalToDouble(num, den) ==
    RoundToDouble(BitsOfNat(num \div den) \cup
                  FracBits(num % den, den, -1, -(MANT_DIG + 11)))

\* A JSON number as written in a document: an integer literal or a literal
\* with one decimal digit (tenths).
JInt(n)  == [t |-> "jint", n |-> n]
JDec(k)  == [t |-> "jdec", tenths |-> k]

PyInt(n)   == [t |-> "int", n |-> n]
PyFloat(S) == [t |-> "float", bits |-> S]

\* json.loads on a number literal: int for an integer literal, float otherwise.
read_number(lit) ==
    IF lit.t = "jint" THEN PyInt(lit.n)
    ELSE PyFloat(DecimalToDouble(lit.tenths, 10))

\* float(x) for an int or a float.
float(x) == IF x.t = "int" THEN BitsOfNat(x.n) ELSE x.bits

\* The decimal digits of a natural number, as characters.
Digit(d) == <<"0", "1", "2", "3", "4", "5", "6", "7", "8", "9">>[d + 1]

RECURSIVE DigitsOf(_)
DigitsOf(n) == IF n < 10 THEN <<Digit(n)>> ELSE Append(DigitsOf(n \div 10), Digit(n % 10))

\* repr of a non-negative float, the text an f-string embeds: the shortest
\* decimal that reads back as the same double.  An integral value gets
\* ".0"; a value that one fractional digit identifies gets that digit; any
\* other value needs more digits, which the token "..." stands for.
FloatStr(S) ==
    LET n    == NatOfBits({i \in S : i >= 0})
        frac == {i \in S : i < 0}
        \* the first four fractional bits narrow the digit down
        f16  == NatOfBits({i + 4 : i \in {j \in frac : j >= -4}})
        near == {d \in 1..9 : 16 * d >= 10 * f16 - 1 /\ 16 * d <= 10 * (f16 + 1) + 1}
        one  == {d \in near : DecimalToDouble(10 * n + d, 10) = S}
    IN  IF frac = {} THEN DigitsOf(n) \o <<".", "0">>
        ELSE IF one # {} THEN DigitsOf(n) \o <<".", Digit(SetMin(one))>>
        ELSE DigitsOf(n) \o <<".", "...">>

\* str(x) of a number in an f-string.
NumStr(x) == IF x.t = "int" THEN DigitsOf(x.n) ELSE FloatStr(x.bits)


\* int(x): an int as it is, a float truncated toward zero.
int(x) == IF x.t = "int" THEN x.n ELSE NatOfBits({i \in x.bits : i >= 0})

----------------------------------------------------------------------------
(* Dictionaries, text and paths.                                           *)

\* d.get(k, default)
Get(d, k, default) == IF k \in DOMAIN d THEN d[k] ELSE default

\* d.get(k) used as a condition: the key is present and holds true.
Truthy(d, k) == k \in DOMAIN d /\ d[k] = TRUE

\* (d.get(k) or {}): the empty dict when the key is absent or holds null.
EmptyDict == [k \in {} |-> None]

GetDict(d, k) == IF k \in DOMAIN d /\ d[k] # None THEN d[k] ELSE EmptyDict

\* "sep".join(list of fragments)
RECURSIVE Join(_, _)
Join(frags, sep) ==
    IF frags = <<>> THEN <<>>
    ELSE IF Len(frags) = 1 THEN frags[1]
    ELSE frags[1] \o <<sep>> \o Join(Tail(frags), sep)

\* Every "\r\n" pair of a text replaced by "\n".
RECURSIVE ReplaceCRLF(_)
ReplaceCRLF(s) ==
    IF s = <<>> THEN <<>>
    ELSE IF Len(s) >= 2 /\ s[1] = "\r" /\ s[2] = "\n"
         THEN <<"\n">> \o ReplaceCRLF(Tail(Tail(s)))
    ELSE <<s[1]>> \o ReplaceCRLF(Tail(s))

tex_escape_minimal(s) == ReplaceCRLF(s)

\* Path(p): a path string is its root flag and its segments; pathlib drops
\* empty segments and "." segments.
PathOf(p) == [abs |-> p.abs, parts |-> SelectSeq(p.segs, LAMBDA x : x # "" /\ x # ".")]

\* a / b
PathJoin(a, b) == IF b.abs THEN b ELSE [abs |-> a.abs, parts |-> a.parts \o b.parts]

\* path.exists() on a file system fs, the set of the existing absolute paths.
exists(fs, path) == path.abs /\ path.parts \in fs

\* path.as_posix()
RECURSIVE SlashJoin(_)
SlashJoin(parts) ==
    IF parts = <<>> THEN <<>>
    ELSE IF Len(parts) = 1 THEN <<parts[1]>>
    ELSE <<parts[1], "/">> \o SlashJoin(Tail(parts))

as_posix(path) == (IF path.abs THEN <<"/">> ELSE <<>>) \o SlashJoin(path.parts)

\* The resolver with the two roots tried in the other order.
resolve_asset_path_base_first(fs, project_root, base_dir, p) ==
    LET cand == PathOf(p)
        pr   == PathJoin(project_root, cand)
        bd   == PathJoin(base_dir, cand)
    IN  IF cand.abs THEN cand
        ELSE IF exists(fs, bd) THEN bd
        ELSE pr

resolve_asset_path(fs, project_root, base_dir, p) ==
    LET cand == PathOf(p)
        pr   == PathJoin(project_root, cand)
        bd   == PathJoin(base_dir, cand)
    IN  IF cand.abs THEN cand
        ELSE IF exists(fs, pr) THEN pr
        ELSE bd

----------------------------------------------------------------------------
(* LaTeX rendering.  A fragment is a sequence of tokens: characters, words *)
(* and LaTeX directives.  A renderer that raises returns no fragment but   *)
(* the exception, so a result is [exc |-> name] or [exc |-> "", text].     *)

NL == "\n"
LineField == "\\linefield{16cm}\\\\[6pt]"
IncludeGraphics == "\\includegraphics[width="

Returned(text) == [exc |-> "", text |-> text]
Raised(name)   == [exc |-> name, text |-> <<>>]

\* The comprehension over range(n + 1).
RECURSIVE RepeatOneMore(_, _)
RepeatOneMore(x, n) == IF n < 0 THEN <<>> ELSE <<x>> \o RepeatOneMore(x, n - 1)

\* [x for _ in range(n)]
RECURSIVE Repeat(_, _)
Repeat(x, n) == IF n <= 0 THEN <<>> ELSE <<x>> \o Repeat(x, n - 1)

VSpace(h) == <<"\\vspace{">> \o FloatStr(h) \o <<"cm}", NL>>

FBox(h) == <<"\\fbox{\\parbox[t][">> \o FloatStr(h) \o <<"cm][t]{\\linewidth}{}}", "\\n">>

render_workspace_block(block) ==
    LET t == block.type
    IN  IF t = "lines"
        THEN Join(Repeat(<<LineField>>, int(block.lines)), NL) \o <<NL>>
        ELSE IF t = "blank"
        THEN VSpace(float(block.height_cm))
        ELSE IF t = "box"
        THEN LET title == tex_escape_minimal(Get(block, "box_title", <<>>))
             IN  IF title # <<>>
                 THEN <<"\\textbf{">> \o title \o <<"}\\par\\vspace{2pt}">>
                      \o FBox(float(block.height_cm))
                 ELSE FBox(float(block.height_cm))
        ELSE IF t \in {"grid", "coord"}
        THEN VSpace(float(Get(block, "height_cm", PyInt(6))))
        ELSE <<>>


\* The image a task embeds: centered, or a captioned figure.
CenteredImage(width, path) ==
    <<"\\begin{center}", IncludeGraphics, width, "]{">> \o as_posix(path)
    \o <<"}", "\\end{center}">>

CaptionedFigure(width, path, cap) ==
    <<"\\begin{figure}[H]\\centering", IncludeGraphics, width, "]{">> \o as_posix(path)
    \o <<"}", "\\caption{">> \o tex_escape_minimal(cap) \o <<"}", "\\end{figure}">>

TaskTitle(index, name, points) ==
    <<"\\tasktitle{", "Aufgabe ">> \o DigitsOf(index) \o <<": ">> \o name
    \o <<"}{">> \o NumStr(points) \o <<"}">>

\* The layout-mode loop: the first asset with role "layout".
RECURSIVE FirstLayout(_)
FirstLayout(assets) ==
    IF assets = <<>> THEN None
    ELSE IF Get(assets[1], "role", "") = "layout" THEN assets[1]
    ELSE FirstLayout(Tail(assets))

\* The selection without the search for the role: the first asset.
layout_asset_first(assets) == IF assets = <<>> THEN None ELSE assets[1]

\* The asset layout mode embeds: the first of role "layout", else the
\* first declared one, else None.
layout_asset(assets) ==
    LET first == FirstLayout(assets)
    IN  IF first = None /\ assets # <<>> THEN assets[1] ELSE first

\* The text-mode loop over the assets: the figures' fragments, or the
\* exception of the first figure whose file is missing.
RECURSIVE FigureFrags(_, _, _, _)
FigureFrags(fs, project_root, task_dir, assets) ==
    IF assets = <<>> THEN [exc |-> "", frags |-> <<>>]
    ELSE LET a    == assets[1]
             rest == FigureFrags(fs, project_root, task_dir, Tail(assets))
         IN  IF Get(a, "role", "figure") # "figure" THEN rest
             ELSE LET p     == resolve_asset_path(fs, project_root, task_dir, a.path)
                      width == Get(a, "width", "0.8\\linewidth")
                      cap   == Get(a, "caption", <<>>)
                  IN  IF ~exists(fs, p) THEN [exc |-> "FileNotFoundError", frags |-> <<>>]
                      ELSE IF rest.exc # "" THEN rest
                      ELSE [exc |-> "",
                            frags |-> <<IF cap # <<>> THEN CaptionedFigure(width, p, cap)
                                        ELSE CenteredImage(width, p)>> \o rest.frags]

\* [render_workspace_block(wb) for wb in blocks]
RECURSIVE BlockFrags(_)
BlockFrags(blocks) ==
    IF blocks = <<>> THEN <<>>
    ELSE <<render_workspace_block(blocks[1])>> \o BlockFrags(Tail(blocks))

\* The items of the enumerate environment: each part's text, then its blocks.
RECURSIVE PartFrags(_)
PartFrags(parts) ==
    IF parts = <<>> THEN <<>>
    ELSE <<(<<"\\item ">> \o tex_escape_minimal(parts[1].text))>>
         \o BlockFrags(Get(parts[1], "workspace", <<>>))
         \o PartFrags(Tail(parts))

render_task(fs, project_root, task_dir, t, index) ==
    LET name      == tex_escape_minimal(t.name)
        statement == tex_escape_minimal(t.statement)
        mode      == Get(GetDict(t, "render"), "mode", "text")
        head      == <<TaskTitle(index, name, t.points), statement \o <<NL>>>>
        assets    == Get(t, "assets", <<>>)
        workspace == Get(t, "workspace", <<>>)
        parts     == Get(t, "parts", <<>>)
    IN  IF mode = "layout"
        THEN LET la == layout_asset(assets)
             IN  IF la = None \/ la = EmptyDict THEN Raised("ValueError")
                 ELSE LET p == resolve_asset_path(fs, project_root, task_dir, la.path)
                      IN  IF ~exists(fs, p) THEN Raised("FileNotFoundError")
                          ELSE Returned(Join(
                                 head \o <<CenteredImage(Get(la, "width", "\\linewidth"), p),
                                           <<NL>>>>, NL))
        ELSE LET figs == FigureFrags(fs, project_root, task_dir, assets)
             IN  IF figs.exc # "" THEN Raised(figs.exc)
                 ELSE Returned(Join(
                        head \o figs.frags
                        \o (IF parts # <<>>
                            THEN <<(<<"\\begin{enumerate}[label=\\alph*)]">>)>>
                                 \o PartFrags(parts) \o <<(<<"\\end{enumerate}">>)>>
                            ELSE <<>>)
                        \o BlockFrags(workspace)
                        \o <<(<<"\\vspace{6pt}\\hrule\\vspace{6pt}">>)>>, NL))

\* find_field(key): the first header field with that key, or None.
RECURSIVE find_field(_, _)
find_field(fields, key) ==
    IF fields = <<>> THEN None
    ELSE IF Get(fields[1], "key", "") = key THEN fields[1]
    ELSE find_field(Tail(fields), key)

\* One full-width row per text_line field other than the three of the name row.
RECURSIVE TextLineRows(_)
TextLineRows(fields) ==
    IF fields = <<>> THEN <<>>
    ELSE LET f == fields[1]
         IN  (IF Get(f, "kind", "") = "text_line"
                 /\ Get(f, "key", "") \notin {"student_name", "class", "note"}
              THEN <<(<<"\\multicolumn{3}{|l|}{">>
                      \o tex_escape_minimal(Get(f, "label", <<Get(f, "key", "")>>))
                      \o <<": \\linefield{12cm}}", " \\\\ \\hline">>)>>
              ELSE <<>>) \o TextLineRows(Tail(fields))

RECURSIVE Boxes(_)
Boxes(opts) ==
    IF opts = <<>> THEN <<>>
    ELSE <<(tex_escape_minimal(opts[1]) \o <<" ", "\\checkbox">>)>> \o Boxes(Tail(opts))

\* One full-width row per checkbox_group field.
RECURSIVE CheckboxRows(_)
CheckboxRows(fields) ==
    IF fields = <<>> THEN <<>>
    ELSE LET f     == fields[1]
             label == tex_escape_minimal(Get(f, "label", <<>>))
         IN  (IF Get(f, "kind", "") = "checkbox_group"
              THEN <<(<<"\\multicolumn{3}{|l|}{">>
                      \o (IF label # <<>> THEN label \o <<" ">> ELSE <<>>)
                      \o Join(Boxes(Get(f, "options", <<>>)), " \\quad ")
                      \o <<"}", " \\\\ \\hline">>)>>
              ELSE <<>>) \o CheckboxRows(Tail(fields))

render_header(fs, project_root, ex, sch) ==
    LET logo_path == resolve_asset_path(fs, project_root, project_root, sch.logo)
        fields    == Get(sch, "header_fields", <<>>)
        student   == find_field(fields, "student_name")
        cls_f     == find_field(fields, "class")
        note      == find_field(fields, "note")
        titleRow  == <<"\\textbf{">> \o tex_escape_minimal(ex.title) \o <<"}", " & Fach: ">>
                     \o tex_escape_minimal(ex.subject) \o <<" & Datum: ">>
                     \o tex_escape_minimal(ex.date) \o <<" \\\\ \\hline">>
        nameRow   == (IF student # None THEN student.label ELSE <<"Name">>)
                     \o <<": \\linefield{7cm} & ">>
                     \o (IF cls_f # None THEN cls_f.label ELSE <<"Klasse">>)
                     \o <<": \\linefield{3cm} & ">>
                     \o (IF note # None THEN note.label ELSE <<"Nr./Note">>)
                     \o <<": \\linefield{3cm}", " \\\\ \\hline">>
        rows      == <<titleRow>>
                     \o (IF student # None \/ cls_f # None \/ note # None
                         THEN <<nameRow>> ELSE <<>>)
                     \o TextLineRows(fields) \o CheckboxRows(fields)
    IN  IF ~exists(fs, logo_path) THEN Raised("FileNotFoundError")
        ELSE Returned(<<"\\begin{tabular}", IncludeGraphics, "\\linewidth", "]{">>
                      \o as_posix(logo_path) \o <<"}", " &", "\\begin{tabular}", "\\hline">>
                      \o Join(rows, NL)
                      \o <<"\\end{tabular}", "\\end{tabular}", "\\vspace{8pt}", NL>>)

latex_preamble == <<"\\documentclass[12pt,a4paper]{article}", "\\begin{document}", NL>>

latex_end == <<"\\end{document}">>


----------------------------------------------------------------------------
(* The project on disk: the documents json.loads returns and the files     *)
(* that exist.                                                             *)

\* Longest exam (task references) and longest asset list the model draws.
MaxTasks == 3
MaxAssets == 2
MaxLines == 3

Rel(segs) == [abs |-> FALSE, segs |-> segs]
Abs(segs) == [abs |-> TRUE, segs |-> segs]

ProjectRoot == [abs |-> TRUE, parts |-> <<"proj">>]

TaskDir(task_id) == PathJoin(ProjectRoot, PathOf(Rel(<<"tasks", task_id>>)))

TaskPath(task_id) == PathJoin(TaskDir(task_id), PathOf(Rel(<<"task.json">>)))

SchemaPath(name) == PathJoin(ProjectRoot, PathOf(Rel(<<"schemas", name \o ".schema.json">>)))

TaskIds == {"t_text", "t_break", "t_layout", "t_invalid", "t_nofig", "t_noassets",
            "t_missing"}

\* The task documents as read_json returns them.
TaskDoc(task_id) ==
    CASE task_id = "t_text" ->
           [id |-> task_id, name |-> <<"Terme">>, points |-> read_number(JInt(10)),
            statement |-> <<"Vereinfache", "\r", "\n", "die Terme.">>,
            assets |-> << [path |-> Rel(<<"fig.png">>)],
                          [role |-> "figure", path |-> Rel(<<"assets", "common.png">>),
                           width |-> "0.5\\linewidth", caption |-> <<"Skizze">>],
                          [role |-> "layout", path |-> Rel(<<"nolayout.png">>)] >>,
            parts |-> << [text |-> <<"x + x">>,
                          workspace |-> << [type |-> "lines", lines |-> read_number(JInt(2))] >>],
                         [text |-> <<"2x - x">>] >>,
            workspace |-> << [type |-> "grid", height_cm |-> read_number(JInt(4))],
                             [type |-> "lines", lines |-> read_number(JInt(0))] >>]
      [] task_id = "t_break" ->
           [id |-> task_id, name |-> <<"Gleichung">>, points |-> read_number(JInt(8)),
            statement |-> <<"Loese die Gleichung.">>,
            render |-> [mode |-> "text", page_break_before |-> TRUE],
            workspace |-> << [type |-> "box", height_cm |-> read_number(JDec(25)),
                              box_title |-> <<"Antwort">>] >>]
      [] task_id = "t_layout" ->
           [id |-> task_id, name |-> <<"Arbeitsblatt">>, points |-> read_number(JDec(25)),
            statement |-> <<"Siehe Blatt.">>,
            render |-> [mode |-> "layout", page_break_before |-> FALSE],
            assets |-> << [role |-> "figure", path |-> Rel(<<"fig.png">>)],
                          [role |-> "layout", path |-> Abs(<<"srv", "layout.png">>),
                           width |-> "0.9\\linewidth"] >>,
            parts |-> << [text |-> <<"unsichtbar">>] >>,
            workspace |-> << [type |-> "blank", height_cm |-> read_number(JInt(3))] >>]
      [] task_id = "t_invalid" ->
           [id |-> task_id, name |-> <<"Entwurf">>, points |-> read_number(JInt(4)),
            statement |-> <<"Entwurf.">>, render |-> None, workspace |-> << [type |-> "sketch"] >>]
      [] task_id = "t_nofig" ->
           [id |-> task_id, name |-> <<"Diagramm">>, points |-> read_number(JInt(6)),
            statement |-> <<"Lies ab.">>,
            assets |-> << [role |-> "figure", path |-> Rel(<<"gone.png">>)] >>]
      [] task_id = "t_noassets" ->
           [id |-> task_id, name |-> <<"Leer">>, points |-> read_number(JInt(3)),
            statement |-> <<"Leer.">>, render |-> [mode |-> "layout"], assets |-> <<>>]

\* The school document.
SchoolDoc ==
    [id |-> "gym", logo |-> Rel(<<"assets", "logo.png">>),
     header_fields |-> << [key |-> "student_name", kind |-> "text_line", label |-> <<"Name">>],
                          [key |-> "parents", kind |-> "text_line", label |-> <<"Unterschrift">>],
                          [key |-> "support", kind |-> "checkbox_group", label |-> <<>>,
                           options |-> << <<"LRSt">>, <<"IRSt">> >>] >>]

\* The documents that violate their schema, by the label validate_json gets.
Invalid(e) == e.invalid \cup {"t_invalid"}

\* The files that exist.
FileSystem(e) ==
    {<<"proj", "tasks", t, "task.json">> : t \in TaskIds \ {"t_missing"}}
    \cup {<<"proj", "schemas", n \o ".schema.json">> : n \in e.schemas}
    \cup (IF e.school_file = "missing" THEN {}
          ELSE {<<"proj", "schools", "bayern", "gym.json">>})
    \cup (IF e.logo THEN {<<"proj", "assets", "logo.png">>} ELSE {})
    \cup {<<"proj", "tasks", "t_text", "fig.png">>,
          <<"proj", "tasks", "t_text", "assets", "common.png">>,
          <<"proj", "assets", "common.png">>,
          <<"proj", "tasks", "t_layout", "fig.png">>,
          <<"srv", "layout.png">>}

\* next((project_root / "schools").glob("**/<id>.json"), None)
school_glob(fs, school_id) ==
    LET hits == {f \in fs : /\ Len(f) >= 3
                            /\ f[1] = "proj" /\ f[2] = "schools"
                            /\ f[Len(f)] = school_id \o ".json"}
    IN  IF hits = {} THEN None
        ELSE [abs |-> TRUE, parts |-> CHOOSE f \in hits : TRUE]

\* validate_json: the exception it raises ("" for none).
validate_json(e, label) ==
    IF ~e.has_jsonschema THEN ""
    ELSE IF label \in Invalid(e) THEN "SystemExit(2)"
    ELSE ""

\* not args.no_validate and HAS_JSONSCHEMA and <schema>.exists()
validation_on(e, name) ==
    ~e.no_validate /\ e.has_jsonschema /\ exists(FileSystem(e), SchemaPath(name))


\* The task references an exam may list.
Refs ==
    { [id |-> "t_text"],
      [id |-> "t_text", points_override |-> read_number(JInt(5)), page_break_before |-> TRUE],
      [id |-> "t_break", page_break_before |-> FALSE],
      [id |-> "t_layout"],
      [id |-> "t_break", points_override |-> read_number(JDec(2)), page_break_before |-> TRUE],
      [id |-> "t_invalid", points_override |-> read_number(JInt(0))],
      [id |-> "t_missing"],
      [id |-> "t_nofig"],
      [id |-> "t_noassets"] }

SeqsUpTo(S, n) == UNION {[1..k -> S] : k \in 0..n}

ExamDoc(refs) ==
    [id |-> "ex1", title |-> <<"1. Schulaufgabe">>, subject |-> <<"Mathematik">>,
     class |-> <<"7b">>, date |-> <<"2024-05-06">>, school_id |-> "gym", tasks |-> refs]

SchemaNames == {"task", "school", "exam"}

\* A project where every document loads and validates.
GoodEnv(refs) ==
    [no_validate |-> FALSE, has_jsonschema |-> TRUE, schemas |-> SchemaNames,
     invalid |-> {}, school_file |-> "ok", logo |-> TRUE, exam |-> ExamDoc(refs)]

\* Projects with one thing changed: validation switched off one way or
\* another, an invalid, missing or unreadable document, a missing logo.
Variants(e) ==
    { [e EXCEPT !.has_jsonschema = FALSE, !.invalid = {"exam", "school"}],
      [e EXCEPT !.schemas = {}, !.invalid = {"exam", "school"}],
      [e EXCEPT !.schemas = {"exam", "school"}],
      [e EXCEPT !.invalid = {"exam"}],
      [e EXCEPT !.invalid = {"school"}],
      [e EXCEPT !.school_file = "missing"],
      [e EXCEPT !.school_file = "malformed"],
      [e EXCEPT !.logo = FALSE],
      [e EXCEPT !.no_validate = TRUE, !.invalid = {"exam", "school"}] }

Idle ==
    /\ exam = None /\ school = None /\ task = None /\ task_for_render = None
    /\ idx = 0 /\ loaded = 0 /\ total_points = {} /\ tex_parts = <<>>
    /\ outcome = "" /\ tex_file = [written |-> FALSE, text |-> <<>>]
    /\ compiler_runs = 0

Init ==
    /\ pc = "start"
    /\ \/ \E refs \in SeqsUpTo(Refs, MaxTasks) :
            env = GoodEnv(refs)
       \/ \E refs \in SeqsUpTo(Refs, MaxTasks - 1) :
            env = [GoodEnv(refs) EXCEPT !.no_validate = TRUE]
       \/ \E refs \in SeqsUpTo(Refs, 1) : env \in Variants(GoodEnv(refs))
    /\ Idle
    /\ call = [fn |-> "none"] /\ ret = None

----------------------------------------------------------------------------
(* main(), one action per stretch of the function between two places       *)
(* where it can stop.                                                      *)

\* An exception that is swallowed: the build carries on with the loop.
AbortAndCarryOn(exc) == pc' = "loop" /\ outcome' = exc

\* An exception leaves main: the build is over.
Abort(exc) == pc' = "exit" /\ outcome' = exc

\* exam = read_json(exam_path), then the exam's validation.
LoadExam ==
    /\ pc = "start"
    /\ exam' = env.exam
    /\ LET exc == IF validation_on(env, "exam") THEN validate_json(env, "exam") ELSE ""
       IN  IF exc # "" THEN Abort(exc) ELSE pc' = "school" /\ outcome' = outcome
    /\ UNCHANGED <<env, school, task, idx, loaded, total_points, tex_parts,
                   task_for_render, tex_file, compiler_runs, call, ret>>

\* The school file is searched, read and validated.
LoadSchool ==
    /\ pc = "school"
    /\ LET school_path == school_glob(FileSystem(env), exam.school_id)
       IN  IF school_path = None \/ ~exists(FileSystem(env), school_path)
           THEN Abort("FileNotFoundError") /\ school' = school
           ELSE IF env.school_file = "malformed"
           THEN Abort("JSONDecodeError") /\ school' = school
           ELSE /\ school' = SchoolDoc
                /\ LET exc == IF validation_on(env, "school")
                              THEN validate_json(env, "school") ELSE ""
                   IN  IF exc # "" THEN Abort(exc)
                       ELSE pc' = "header" /\ outcome' = outcome
    /\ UNCHANGED <<env, exam, task, idx, loaded, total_points, tex_parts,
                   task_for_render, tex_file, compiler_runs, call, ret>>

\* tex_parts gets the preamble, then the header; total_points = 0.0.
RenderHeader ==
    /\ pc = "header"
    /\ LET r == render_header(FileSystem(env), ProjectRoot, exam, school)
       IN  IF r.exc # ""
           THEN Abort(r.exc) /\ tex_parts' = <<latex_preamble>>
           ELSE /\ tex_parts' = <<latex_preamble, r.text>>
                /\ pc' = "loop" /\ outcome' = outcome
    /\ total_points' = {}
    /\ UNCHANGED <<env, exam, school, task, idx, loaded, task_for_render,
                   tex_file, compiler_runs, call, ret>>

\* The head of one loop iteration: the task file is read and validated.
LoadTask ==
    /\ pc = "loop"
    /\ idx < Len(exam.tasks)
    /\ idx' = idx + 1
    /\ LET task_id == exam.tasks[idx + 1].id
       IN  IF ~exists(FileSystem(env), TaskPath(task_id))
           THEN Abort("FileNotFoundError") /\ UNCHANGED <<task, loaded>>
           ELSE /\ task' = TaskDoc(task_id)
                /\ loaded' = loaded + 1
                /\ LET exc == IF validation_on(env, "task")
                              THEN validate_json(env, task_id) ELSE ""
                   IN  IF exc # "" THEN Abort(exc)
                       ELSE pc' = "render" /\ outcome' = outcome
    /\ UNCHANGED <<env, exam, school, total_points, tex_parts, task_for_render,
                   tex_file, compiler_runs, call, ret>>

\* The points with the override ignored.
effective_points_declared(tref, t) == float(t.points)

\* pts = float(tref.get("points_override", task["points"]))
effective_points(tref, t) == float(Get(tref, "points_override", t.points))

\* The page break with the task's own configuration ignored.
page_break_ref_only(tref, t) == Truthy(tref, "page_break_before")

\* tref.get("page_break_before") or (task.get("render") or {}).get("page_break_before")
page_break(tref, t) ==
    Truthy(tref, "page_break_before") \/ Truthy(GetDict(t, "render"), "page_break_before")

\* The rest of the iteration: the points, the copy, the page break, the task.
RenderTask ==
    /\ pc = "render"
    /\ LET tref == exam.tasks[idx]
           pts  == effective_points(tref, task)
           copy == [k \in DOMAIN task \cup {"points"} |->
                      IF k = "points" THEN PyFloat(pts) ELSE task[k]]
           brk  == IF page_break(tref, copy) THEN <<(<<"\\newpage">>)>> ELSE <<>>
           r    == render_task(FileSystem(env), ProjectRoot, TaskDir(tref.id), copy, idx)
       IN  /\ total_points' = FloatAdd(total_points, pts)
           /\ task_for_render' = copy
           /\ IF r.exc # ""
              THEN Abort(r.exc) /\ tex_parts' = tex_parts \o brk
              ELSE /\ tex_parts' = tex_parts \o brk \o <<r.text>>
                   /\ pc' = "loop" /\ outcome' = outcome
    /\ UNCHANGED <<env, exam, school, task, idx, loaded, tex_file,
                   compiler_runs, call, ret>>

TotalLine(total) == <<"\\par\\textbf{Gesamtpunkte:} ">> \o FloatStr(total) \o <<"\\par">>

\* After the loop: the total line, the closing marker, the file is written.
WriteTex ==
    /\ pc = "loop"
    /\ idx = Len(exam.tasks)
    /\ tex_parts' = tex_parts \o <<TotalLine(total_points), latex_end>>
    /\ tex_file' = [written |-> TRUE, text |-> Join(tex_parts', NL)]
    /\ pc' = "compile"
    /\ UNCHANGED <<env, exam, school, task, idx, loaded, total_points,
                   task_for_render, outcome, compiler_runs, call, ret>>

\* The compiler: pdflatex twice if it is installed, else latexmk once, else
\* an error; a run that fails raises (check=True).  failed_run is the run
\* that fails (0: none).
Compile ==
    /\ pc = "compile"
    /\ \E pdflatex \in BOOLEAN, latexmk \in BOOLEAN, failed_run \in 0..2 :
         LET runs == IF pdflatex THEN 2 ELSE IF latexmk THEN 1 ELSE 0
         IN  /\ failed_run <= runs
             /\ IF runs = 0
                THEN Abort("RuntimeError") /\ compiler_runs' = 0
                ELSE IF failed_run > 0
                THEN Abort("CalledProcessError") /\ compiler_runs' = failed_run
                ELSE /\ compiler_runs' = runs
                     /\ pc' = "compiled" /\ outcome' = outcome
    /\ UNCHANGED <<env, exam, school, task, idx, loaded, total_points, tex_parts,
                   task_for_render, tex_file, call, ret>>

\* The PDF is there, or the build ends with status 3.
CheckPdf ==
    /\ pc = "compiled"
    /\ \E pdf_exists \in BOOLEAN :
         IF pdf_exists THEN pc' = "done" /\ outcome' = "ok"
         ELSE Abort("SystemExit(3)")
    /\ UNCHANGED <<env, exam, school, task, idx, loaded, total_points, tex_parts,
                   task_for_render, tex_file, compiler_runs, call, ret>>

Next ==
    \/ LoadExam
    \/ LoadSchool
    \/ RenderHeader
    \/ LoadTask
    \/ RenderTask
    \/ WriteTex
    \/ Compile
    \/ CheckPdf

Spec == Init /\ [][Next]_vars


----------------------------------------------------------------------------
(* The renderers and the resolver called on their own, on inputs drawn     *)
(* from bounded sets: call holds the arguments, ret the result.            *)

\* Workspace blocks: every type, with and without its optional keys.
LineCounts ==
    {PyInt(n) : n \in -1..MaxLines}
    \cup {PyFloat(DecimalToDouble(k, 10)) : k \in {0, 5, 10, 25}}

Heights == {read_number(JInt(0)), read_number(JInt(4)), read_number(JDec(25))}

Blocks ==
    {[type |-> "lines", lines |-> c] : c \in LineCounts}
    \cup {[type |-> "blank", height_cm |-> h] : h \in Heights}
    \cup {[type |-> "box", height_cm |-> h] : h \in Heights}
    \cup {[type |-> "box", height_cm |-> h, box_title |-> t] :
            h \in Heights, t \in {<<>>, <<"Antwort">>}}
    \cup {[type |-> t] : t \in {"grid", "coord", "sketch", "table"}}
    \cup {[type |-> t, height_cm |-> h] : t \in {"grid", "coord"}, h \in Heights}
    \cup {[type |-> t, spacing |-> g] :
            t \in {"grid", "coord"}, g \in {"fine", "coarse", "millimeter", "tiny"}}
    \cup {[type |-> t, height_cm |-> h, spacing |-> g] :
            t \in {"grid", "coord"}, h \in Heights,
            g \in {"fine", "coarse", "millimeter", "tiny"}}

\* Assets and tasks for render_task.
UnitDir == TaskDir("t_unit")

UnitAssets ==
    { [role |-> "figure", path |-> Rel(<<"fig.png">>)],
      [role |-> "layout", path |-> Rel(<<"sheet.png">>), width |-> "0.9\\linewidth"],
      [path |-> Rel(<<"plain.png">>)],
      [role |-> "figure", path |-> Rel(<<"gone.png">>), caption |-> <<"Bild">>] }

UnitFiles ==
    { {<<"proj", "tasks", "t_unit", "fig.png">>, <<"proj", "tasks", "t_unit", "sheet.png">>,
       <<"proj", "tasks", "t_unit", "plain.png">>},
      {<<"proj", "tasks", "t_unit", "fig.png">>, <<"proj", "tasks", "t_unit", "plain.png">>},
      {<<"proj", "tasks", "t_unit", "sheet.png">>, <<"proj", "sheet.png">>} }

UnitTask(mode, assets, withParts) ==
    LET base == [id |-> "t_unit", name |-> <<"Probe">>, points |-> PyFloat(BitsOfNat(4)),
                 statement |-> <<"Text.">>, assets |-> assets,
                 workspace |-> << [type |-> "lines", lines |-> PyInt(1)] >>]
        body == IF withParts
                THEN [k \in DOMAIN base \cup {"parts"} |->
                        IF k = "parts"
                        THEN << [text |-> <<"a">>,
                                 workspace |-> << [type |-> "blank", height_cm |-> PyInt(2)] >>] >>
                        ELSE base[k]]
                ELSE base
    IN  IF mode = "" THEN body
        ELSE [k \in DOMAIN body \cup {"render"} |->
                IF k = "render" THEN [mode |-> mode] ELSE body[k]]

\* Paths for resolve_asset_path, and the files that may exist.
UnitPaths ==
    { Rel(<<"fig.png">>), Rel(<<".", "fig.png">>), Rel(<<"assets", "common.png">>),
      Abs(<<"srv", "layout.png">>), Abs(<<"proj", "fig.png">>) }

ResolveFiles ==
    { <<"proj", "fig.png">>, <<"proj", "tasks", "t_unit", "fig.png">>,
      <<"proj", "assets", "common.png">>,
      <<"proj", "tasks", "t_unit", "assets", "common.png">>,
      <<"srv", "layout.png">> }

InitUnit ==
    /\ pc = "unit"
    /\ env = None
    /\ Idle
    /\ call = [fn |-> "none"] /\ ret = None

CallResolve ==
    /\ pc = "unit"
    /\ \E fs \in SUBSET ResolveFiles, p \in UnitPaths :
         /\ call' = [fn |-> "resolve_asset_path", fs |-> fs, p |-> p]
         /\ ret' = resolve_asset_path(fs, ProjectRoot, UnitDir, p)
    /\ pc' = "returned"
    /\ UNCHANGED <<env, exam, school, task, idx, loaded, total_points, tex_parts,
                   task_for_render, outcome, tex_file, compiler_runs>>

CallRenderBlock ==
    /\ pc = "unit"
    /\ \E block \in Blocks :
         /\ call' = [fn |-> "render_workspace_block", block |-> block]
         /\ ret' = [text |-> render_workspace_block(block)]
    /\ pc' = "returned"
    /\ UNCHANGED <<env, exam, school, task, idx, loaded, total_points, tex_parts,
                   task_for_render, outcome, tex_file, compiler_runs>>

CallRenderTask ==
    /\ pc = "unit"
    /\ \E mode \in {"", "text", "layout"}, assets \in SeqsUpTo(UnitAssets, MaxAssets),
          withParts \in BOOLEAN, fs \in UnitFiles :
         LET t == UnitTask(mode, assets, withParts)
         IN  /\ call' = [fn |-> "render_task", fs |-> fs, task |-> t]
             /\ ret' = render_task(fs, ProjectRoot, UnitDir, t, 1)
    /\ pc' = "returned"
    /\ UNCHANGED <<env, exam, school, task, idx, loaded, total_points, tex_parts,
                   task_for_render, outcome, tex_file, compiler_runs>>

NextUnit ==
    \/ CallResolve
    \/ CallRenderBlock
    \/ CallRenderTask

SpecUnit == InitUnit /\ [][NextUnit]_vars


----------------------------------------------------------------------------
(* Properties.                                                             *)

Count(text, tok) == Cardinality({i \in DOMAIN text : text[i] = tok})

\* The first position of a token in a text (0: nowhere).
IndexOf(text, tok) ==
    IF \E i \in DOMAIN text : text[i] = tok
    THEN SetMin({i \in DOMAIN text : text[i] = tok})
    ELSE 0

\* The segments a path string denotes.
Segments(p) == SelectSeq(p.segs, LAMBDA x : x # ".")

ResolveCall == call.fn = "resolve_asset_path"
UnderRoot   == <<"proj">> \o Segments(call.p)
UnderBase   == <<"proj", "tasks", "t_unit">> \o Segments(call.p)

\* C5: resolve_asset_path returns an absolute path as it is; a relative
\* path joined to the project root when that file exists, even if the file
\* also exists under the base directory; else the path joined to the base
\* directory, whether that file exists or not.  It always returns a path.
C5_ResolvePrecedence ==
    ResolveCall =>
        /\ call.p.abs => ret = [abs |-> TRUE, parts |-> Segments(call.p)]
        /\ (~call.p.abs /\ UnderRoot \in call.fs)
              => ret = [abs |-> TRUE, parts |-> UnderRoot]
        /\ (~call.p.abs /\ UnderRoot \notin call.fs)
              => ret = [abs |-> TRUE, parts |-> UnderBase]

\* C5 witness: the file exists under both roots and the project root wins.
C5_Witness ==
    /\ ResolveCall
    /\ ~call.p.abs
    /\ UnderRoot \in call.fs /\ UnderBase \in call.fs
    /\ ret.parts = UnderRoot

BlockCall == call.fn = "render_workspace_block"

\* The count of a lines block when it is a whole number.
WholeCount(c) == c.t = "int" \/ {i \in c.bits : i < 0} = {}
CountOf(c)    == IF c.t = "int" THEN c.n ELSE NatOfBits(c.bits)

LinesCall ==
    /\ BlockCall
    /\ call.block.type = "lines"
    /\ WholeCount(call.block.lines)
    /\ CountOf(call.block.lines) >= 0

\* C7 (amended): a lines block with count n >= 0 renders exactly n ruled
\* fields, one per line, and then a newline; for n = 0 the fragment is that
\* newline alone: it holds no ruled field, but it is not the empty text.
C7_LinesFieldsThenNewline ==
    LinesCall =>
        LET n == CountOf(call.block.lines)
        IN  /\ Count(ret.text, LineField) = n
            /\ Len(ret.text) = (IF n = 0 THEN 1 ELSE 2 * n)
            /\ \A i \in DOMAIN ret.text :
                  ret.text[i] = (IF i % 2 = 1 /\ n > 0 THEN LineField ELSE NL)

\* C7 witness: a lines block of count 0 has been rendered to a newline.
C7_Witness ==
    /\ LinesCall
    /\ CountOf(call.block.lines) = 0
    /\ ret.text = <<NL>>

\* C7 as stated: exactly n ruled fields, and the empty fragment for n = 0.
C7_LinesEmptyForZero ==
    LinesCall =>
        /\ Count(ret.text, LineField) = CountOf(call.block.lines)
        /\ CountOf(call.block.lines) = 0 => ret.text = <<>>

\* The grid a block asks for: its spacing selector decides the step, the
\* fine step when the selector is absent or unknown.
GridStep(block) ==
    LET g == Get(block, "spacing", "fine")
    IN  IF g = "coarse" THEN "1cm" ELSE IF g = "millimeter" THEN "0.1cm" ELSE "0.5cm"

GridDirective(step) == "\\draw[step=" \o step \o "] grid"

\* C9 as stated: a grid or coord block renders a ruled grid with the step
\* its spacing selector names (fine by default); a block of an unknown type
\* renders to the empty fragment.
C9_GridRuledWithSelectedSpacing ==
    BlockCall =>
        /\ call.block.type \in {"grid", "coord"}
              => Count(ret.text, GridDirective(GridStep(call.block))) >= 1
        /\ call.block.type \notin {"lines", "blank", "box", "grid", "coord"}
              => ret.text = <<>>

TaskCall   == call.fn = "render_task"
LayoutCall == TaskCall /\ Get(GetDict(call.task, "render"), "mode", "text") = "layout"

\* The asset the claim names: the first of role "layout", else the first.
ClaimedLayoutAsset(assets) ==
    LET L == {i \in DOMAIN assets : Get(assets[i], "role", "") = "layout"}
    IN  IF L # {} THEN assets[SetMin(L)] ELSE assets[1]

ClaimedLayoutFile(a) == <<"proj", "tasks", "t_unit">> \o Segments(a.path)
ClaimedRootFile(a)   == <<"proj">> \o Segments(a.path)

\* C4: in layout mode render_task embeds the first asset of role "layout",
\* or the first asset when none has that role, and raises ValueError
\* without a fragment when there is no asset.  With the asset's file
\* there, the fragment holds exactly one image, of that asset, and no part
\* and no workspace block.
C4_LayoutSelection ==
    LayoutCall =>
        LET assets == call.task.assets
        IN  IF assets = <<>> THEN ret = Raised("ValueError")
            ELSE LET a    == ClaimedLayoutAsset(assets)
                     file == IF ClaimedRootFile(a) \in call.fs THEN ClaimedRootFile(a)
                             ELSE ClaimedLayoutFile(a)
                 IN  IF file \in call.fs
                     THEN /\ ret.exc = ""
                          /\ Count(ret.text, IncludeGraphics) = 1
                          /\ LET i == IndexOf(ret.text, IncludeGraphics)
                             IN  /\ ret.text[i + 1] = Get(a, "width", "\\linewidth")
                                 /\ SubSeq(ret.text, i + 3, i + 2 + 2 * Len(file))
                                      = as_posix([abs |-> TRUE, parts |-> file])
                          /\ Count(ret.text, "\\item ") = 0
                          /\ Count(ret.text, LineField) = 0
                          /\ Count(ret.text, "\\vspace{") = 0
                          /\ Count(ret.text, "\\begin{enumerate}[label=\\alph*)]") = 0
                     ELSE ret = Raised("FileNotFoundError")

\* C4 witness: a layout task with parts whose layout asset is declared
\* second has been rendered to a fragment.
C4_Witness ==
    /\ LayoutCall
    /\ Len(call.task.assets) = 2
    /\ Get(call.task.assets[1], "role", "") # "layout"
    /\ Get(call.task.assets[2], "role", "") = "layout"
    /\ "parts" \in DOMAIN call.task
    /\ ret.exc = ""


\* The fragments of tex_parts that are tasks, and the k-th of them.
IsTaskFragment(f) == f[1] = "\\tasktitle{"
IsHeader(f)       == f[1] = "\\begin{tabular}"
IsNewPage(f)      == f = <<"\\newpage">>

TaskPositions == {i \in DOMAIN tex_parts : IsTaskFragment(tex_parts[i])}

TaskPosition(k) == CHOOSE i \in TaskPositions :
                      Cardinality({j \in TaskPositions : j <= i}) = k

\* The three fields of a task heading: \tasktitle{Aufgabe <index>: <name>}{<points>}
HeadingIndex(f)  == SubSeq(f, 3, IndexOf(f, ": ") - 1)
HeadingName(f)   == SubSeq(f, IndexOf(f, ": ") + 1, IndexOf(f, "}{") - 1)
HeadingPoints(f) == SubSeq(f, IndexOf(f, "}{") + 1, IndexOf(f, "}") - 1)

\* The number a decimal text with at most one fractional digit denotes.
DigitValue(c) == CHOOSE d \in 0..9 : Digit(d) = c

RECURSIVE NatOfDigits(_)
NatOfDigits(txt) ==
    IF txt = <<>> THEN 0
    ELSE 10 * NatOfDigits(SubSeq(txt, 1, Len(txt) - 1)) + DigitValue(txt[Len(txt)])

TextValue(txt) ==
    LET dot == IndexOf(txt, ".")
    IN  IF dot = 0 THEN BitsOfNat(NatOfDigits(txt))
        ELSE DecimalToDouble(10 * NatOfDigits(SubSeq(txt, 1, dot - 1))
                             + DigitValue(txt[dot + 1]), 10)

\* The number a Python value denotes, as a bit set.
ValueOf(x) == IF x.t = "int" THEN BitsOfNat(x.n) ELSE x.bits

IsWhole(S) == \A i \in S : i >= 0

\* The points the claims give a task reference: its override if it carries
\* one, else the points its task document declares.
HasOverride(tref)   == "points_override" \in DOMAIN tref
ClaimedPoints(tref) == IF HasOverride(tref) THEN ValueOf(tref.points_override)
                       ELSE ValueOf(TaskDoc(tref.id).points)

\* C1: the points handed to render_task and shown in the heading of every
\* rendered task are the reference's override when it carries one (not the
\* points the task declares) and the declared points otherwise; the loaded
\* task document stays as it was read.
C1_OverrideDecidesRenderedPoints ==
    /\ \A k \in 1..Cardinality(TaskPositions) :
          TextValue(HeadingPoints(tex_parts[TaskPosition(k)]))
             = ClaimedPoints(exam.tasks[k])
    /\ (pc = "loop" /\ idx >= 1) =>
          /\ task_for_render.points = PyFloat(ClaimedPoints(exam.tasks[idx]))
          /\ task = TaskDoc(exam.tasks[idx].id)

\* C1 witness: a task whose reference overrides the declared points with
\* another value has been rendered.
C1_Witness ==
    /\ pc = "loop" /\ idx >= 1
    /\ HasOverride(exam.tasks[idx])
    /\ ValueOf(exam.tasks[idx].points_override) # ValueOf(TaskDoc(exam.tasks[idx].id).points)
    /\ Cardinality(TaskPositions) = idx

\* The float sum taken in a given order.
RECURSIVE FloatSumFrom(_, _)
FloatSumFrom(acc, values) ==
    IF values = <<>> THEN acc ELSE FloatSumFrom(FloatAdd(acc, values[1]), Tail(values))

Orders(n) == {f \in [1..n -> 1..n] : \A i, j \in 1..n : f[i] = f[j] => i = j}

ExamPoints == [k \in 1..Len(exam.tasks) |-> ClaimedPoints(exam.tasks[k])]

\* The tenths of a point value written with at most one decimal digit, and
\* the exact sum of the exam's points in tenths.
TenthsOf(S) ==
    LET txt == FloatStr(S)
        dot == IndexOf(txt, ".")
    IN  10 * NatOfDigits(SubSeq(txt, 1, dot - 1)) + DigitValue(txt[dot + 1])

RECURSIVE SumTenths(_)
SumTenths(values) ==
    IF values = <<>> THEN 0 ELSE TenthsOf(values[1]) + SumTenths(Tail(values))

\* C2 as stated: after the task loop total_points is the exact sum of the
\* effective points of the exam's references (the float of that sum), and
\* every order of the references gives the same total.
C2_TotalExactAndOrderIndependent ==
    pc = "compile" =>
        /\ total_points = DecimalToDouble(SumTenths(ExamPoints), 10)
        /\ \A f \in Orders(Len(exam.tasks)) :
              FloatSumFrom({}, [k \in 1..Len(exam.tasks) |-> ExamPoints[f[k]]])
                 = total_points

\* The page break the claims give a reference: its own flag or the flag of
\* the task's render configuration.
ClaimedBreak(tref) ==
    \/ ("page_break_before" \in DOMAIN tref /\ tref.page_break_before)
    \/ LET doc == TaskDoc(tref.id)
       IN  /\ "render" \in DOMAIN doc
           /\ doc.render # None
           /\ "page_break_before" \in DOMAIN doc.render
           /\ doc.render.page_break_before

\* C3: the task fragments stand in tex_parts in the order of the exam's
\* references, the k-th numbered k, after the preamble and the header; a
\* \newpage stands right before the k-th fragment exactly when the k-th
\* reference or its task's render configuration asks for one, and nowhere
\* else; the written document ends with the total line and the closing
\* marker and holds every reference's fragment.
C3_TasksInExamOrderWithBreaks ==
    LET n == Cardinality(TaskPositions)
    IN  /\ n > 0 => /\ tex_parts[1] = latex_preamble
                    /\ IsHeader(tex_parts[2])
        /\ \A k \in 1..n :
              LET i == TaskPosition(k)
                  f == tex_parts[i]
              IN  /\ HeadingIndex(f) = DigitsOf(k)
                  /\ HeadingName(f) = TaskDoc(exam.tasks[k].id).name
                  /\ IsNewPage(tex_parts[i - 1]) <=> ClaimedBreak(exam.tasks[k])
                  /\ i > 2
        /\ \A i \in DOMAIN tex_parts :
              IsNewPage(tex_parts[i]) /\ i < Len(tex_parts)
                 => IsTaskFragment(tex_parts[i + 1])
        /\ tex_file.written =>
              /\ n = Len(exam.tasks)
              /\ TaskPositions # {} => SetMax(TaskPositions) = Len(tex_parts) - 2
              /\ tex_parts[Len(tex_parts)] = latex_end
              /\ tex_file.text = Join(tex_parts, NL)

\* C3 witness: a document of three tasks has been written, the second with
\* a page break only its task's configuration asks for, the third with none.
C3_Witness ==
    /\ tex_file.written
    /\ Len(exam.tasks) = 3
    /\ ~Truthy(exam.tasks[2], "page_break_before") /\ ClaimedBreak(exam.tasks[2])
    /\ ~ClaimedBreak(exam.tasks[3])
    /\ IsNewPage(tex_parts[TaskPosition(2) - 1])

\* The documents of the build that violate their schema.
ExamDocuments == {"exam", "school"} \cup {env.exam.tasks[k].id : k \in DOMAIN env.exam.tasks}

ValidationEnabled ==
    ~env.no_validate /\ env.has_jsonschema /\ env.schemas = SchemaNames

RenderingBegun == \E i \in DOMAIN tex_parts : IsHeader(tex_parts[i]) \/ IsTaskFragment(tex_parts[i])

\* C6 as stated: with validation enabled, a build with a document that
\* violates its schema renders nothing, neither the header nor a task,
\* and a build that ends with exit status 2 has rendered nothing.
C6_ValidationAbortsBeforeRendering ==
    /\ (ValidationEnabled /\ ExamDocuments \cap Invalid(env) # {}) => ~RenderingBegun
    /\ outcome = "SystemExit(2)" => ~RenderingBegun

\* C8 as stated: points that are whole numbers are shown without a
\* fractional part, in every task heading and in the total line.
C8_WholePointsShownAsIntegers ==
    /\ \A k \in 1..Cardinality(TaskPositions) :
          IsWhole(ClaimedPoints(exam.tasks[k]))
             => Count(HeadingPoints(tex_parts[TaskPosition(k)]), ".") = 0
    /\ (tex_file.written /\ IsWhole(total_points))
          => Count(tex_parts[Len(tex_parts) - 1], ".") = 0


\* The faults the claim lists, read off the project: a school document
\* that cannot be loaded, a missing logo, and per reference a task
\* document that is missing or a task whose renderer finds no asset or a
\* missing asset file.
SchoolFault == env.school_file # "ok"
LogoFault   == ~env.logo

FileMissing(a, task_id) ==
    IF a.path.abs THEN Segments(a.path) \notin FileSystem(env)
    ELSE /\ (<<"proj">> \o Segments(a.path)) \notin FileSystem(env)
         /\ (<<"proj", "tasks", task_id>> \o Segments(a.path)) \notin FileSystem(env)

LoadFault(tref) == <<"proj", "tasks", tref.id, "task.json">> \notin FileSystem(env)

AssetFault(tref) ==
    LET doc    == TaskDoc(tref.id)
        assets == IF "assets" \in DOMAIN doc THEN doc.assets ELSE <<>>
        layout == /\ "render" \in DOMAIN doc
                  /\ doc.render # None
                  /\ "mode" \in DOMAIN doc.render
                  /\ doc.render.mode = "layout"
    IN  IF layout
        THEN assets = <<>> \/ FileMissing(ClaimedLayoutAsset(assets), tref.id)
        ELSE \E i \in DOMAIN assets :
                /\ ("role" \in DOMAIN assets[i] => assets[i].role = "figure")
                /\ FileMissing(assets[i], tref.id)

Faulty(tref) == LoadFault(tref) \/ (~LoadFault(tref) /\ AssetFault(tref))

FaultyRefs == {k \in DOMAIN env.exam.tasks : Faulty(env.exam.tasks[k])}

\* C10: the build stops at the first fault.  With a school or logo fault no
\* task is loaded; with a faulty k-th reference no later task is loaded or
\* rendered and the k-th is not rendered; the .tex file is written only
\* with no fault at all, after the header and every task of the exam have
\* been rendered; the compiler runs only after the file has been written.
C10_FailFastNoPartialOutput ==
    /\ tex_file.written =>
          /\ ~SchoolFault /\ ~LogoFault /\ FaultyRefs = {}
          /\ IsHeader(tex_parts[2])
          /\ Cardinality(TaskPositions) = Len(env.exam.tasks)
    /\ compiler_runs > 0 => tex_file.written
    /\ pc \in {"compile", "compiled", "done"} => tex_file.written
    /\ SchoolFault => ~RenderingBegun
    /\ (SchoolFault \/ LogoFault) => (loaded = 0 /\ idx = 0 /\ TaskPositions = {})
    /\ FaultyRefs # {} =>
          LET k == SetMin(FaultyRefs)
          IN  /\ idx <= k
              /\ loaded <= (IF LoadFault(env.exam.tasks[k]) THEN k - 1 ELSE k)
              /\ Cardinality(TaskPositions) < k
              /\ pc \in {"start", "school", "header", "loop", "render", "exit"}

\* C10 witness: the second of three tasks has failed to load or render;
\* the first is rendered, the third untouched, nothing is written.
C10_Witness ==
    /\ pc = "exit"
    /\ outcome \in {"FileNotFoundError", "ValueError"}
    /\ Len(env.exam.tasks) = 3
    /\ idx = 2
    /\ Cardinality(TaskPositions) = 1
    /\ ~tex_file.written
    /\ compiler_runs = 0

====
